---- MODULE Spec2Model ----
(***************************************************************************)
(* Model of fast_align_audio/alignment.py: the correlation offset search   *)
(* (fast_autocorr, find_best_alignment_offset_with_corrcoef), the public   *)
(* entry point find_best_alignment_offset, and the align pipeline          *)
(* (align, _align, _fix).                                                  *)
(*                                                                         *)
(* Signals are sequences of integer samples (1-based here, 0-based in the  *)
(* source).  A correlation score is the float64 that np.corrcoef returns:  *)
(* the arithmetic of np.cov and np.corrcoef is carried out step by step on *)
(* float64 values, every sum, product, quotient and square root rounded to *)
(* the nearest float64, ties to even.  Two scores that are equal as real   *)
(* numbers can so be different floats, and np.argmax compares the floats.  *)
(* The mean of a row is taken from numpy's pairwise sum; the dot products  *)
(* are accumulated from the first sample on, without fused multiply-add.   *)
(* The dtype and contiguity assertions of lines 72-80 are taken to hold:   *)
(* the inputs are float32 C-contiguous arrays.                             *)
(***************************************************************************)
EXTENDS Integers, Sequences, FiniteSets, TLC

VARIABLES
    a, b,          \* the two input signals
    max_offset,    \* max_offset_samples / max_offset
    lookahead,     \* lookahead_samples / max_lookahead of the call
    method,        \* method of the call
    align_mode,    \* align_mode of the call
    fix_length,    \* fix_length of the call
    pc,            \* position of the call in progress
    offset,        \* the offset found
    alignedA, alignedB,  \* align's locals a, b after line 117 / 120
    outA, outB     \* the pair align returns

vars == <<a, b, max_offset, lookahead, method, align_mode, fix_length,
          pc, offset, alignedA, alignedB, outA, outB>>

inputs == <<a, b, max_offset>>

\* ---------------------------------------------------------------- bounds
\* longest signal handed to the correlation search
MaxLen == 7
\* longest signal handed to align
MaxAlignLen == 3
\* largest max_offset_samples
MaxOffset == 2
\* largest lookahead_samples
MaxLookahead == 1

\* every 4th sample is scored (the ::4 of fast_autocorr)
Stride == 4

Samples == {0, 1}

\* an Optional[int]: None, or <<n>>
None == << >>
Some(n) == <<n>>

SignalsOfLen(n) == [1..n -> Samples]
SignalsUpTo(n) == UNION {SignalsOfLen(k) : k \in 0..n}
Lookaheads == {None} \cup {Some(n) : n \in 1..MaxLookahead}
Methods == {"mse", "corr", "other"}
AlignModes == {"crop", "pad", "other"}
FixModes == {"None", "shortest", "longest", "other"}

\* ------------------------------------------------------ sequence helpers
Min(m, n) == IF m <= n THEN m ELSE n
Max(m, n) == IF m >= n THEN m ELSE n

\* s[start:stop] for 0 <= start, 0 <= stop (Python clips both to len(s))
PySlice(s, start, stop) ==
    LET lo == Min(start, Len(s))
        hi == Min(stop, Len(s))
    IN  IF hi <= lo THEN << >> ELSE SubSeq(s, lo + 1, hi)

\* s[::4]
EveryStride(s) ==
    LET n == (Len(s) + Stride - 1) \div Stride
    IN  SubSeq([i \in 1..n |-> s[Stride * (i - 1) + 1]], 1, n)

Zeros(n) == [i \in 1..n |-> 0]

\* ---------------------------------------------------- float64 arithmetic
\* A natural number of any size is the sequence of its digits in base
\* LimbBase, least significant first, without a leading zero digit; << >>
\* is 0.  The operations are functions: an argument is computed once.
LimbBits == 15
LimbBase == 32768

\* bits of a float64 significand
MantBits == 53

Bigs == Seq(0..(LimbBase - 1))

Limb(x, i) == IF i <= Len(x) THEN x[i] ELSE 0

BNorm[x \in Bigs] ==
    IF Len(x) = 0 THEN << >>
    ELSE IF x[Len(x)] = 0 THEN BNorm[SubSeq(x, 1, Len(x) - 1)]
    ELSE x

BFromInt[n \in Nat] ==
    IF n = 0 THEN << >> ELSE <<n % LimbBase>> \o BFromInt[n \div LimbBase]

BAddFrom[x \in Bigs, y \in Bigs, i \in Nat, carry \in Nat] ==
    IF i > Len(x) /\ i > Len(y)
    THEN IF carry = 0 THEN << >> ELSE <<carry>>
    ELSE LET s == Limb(x, i) + Limb(y, i) + carry
         IN  <<s % LimbBase>> \o BAddFrom[x, y, i + 1, s \div LimbBase]

BAdd[x \in Bigs, y \in Bigs] == BAddFrom[x, y, 1, 0]

\* x - y for x >= y
BSubFrom[x \in Bigs, y \in Bigs, i \in Nat, borrow \in Nat] ==
    IF i > Len(x) THEN << >>
    ELSE LET d == x[i] - Limb(y, i) - borrow
         IN  <<d % LimbBase>>
             \o BSubFrom[x, y, i + 1, IF d < 0 THEN 1 ELSE 0]

BSub[x \in Bigs, y \in Bigs] == BNorm[BSubFrom[x, y, 1, 0]]

BCmpFrom[x \in Bigs, y \in Bigs, i \in Nat] ==
    IF i = 0 THEN 0
    ELSE IF x[i] < y[i] THEN 0 - 1
    ELSE IF x[i] > y[i] THEN 1
    ELSE BCmpFrom[x, y, i - 1]

\* -1, 0 or 1 as x < y, x = y or x > y
BCmp[x \in Bigs, y \in Bigs] ==
    IF Len(x) < Len(y) THEN 0 - 1
    ELSE IF Len(x) > Len(y) THEN 1
    ELSE BCmpFrom[x, y, Len(x)]

BMulSmallFrom[x \in Bigs, k \in Nat, i \in Nat, carry \in Nat] ==
    IF i > Len(x)
    THEN IF carry = 0 THEN << >> ELSE <<carry>>
    ELSE LET p == x[i] * k + carry
         IN  <<p % LimbBase>> \o BMulSmallFrom[x, k, i + 1, p \div LimbBase]

\* x * k for a digit k
BMulSmall[x \in Bigs, k \in Nat] ==
    IF k = 0 THEN << >> ELSE BMulSmallFrom[x, k, 1, 0]

\* x * LimbBase^n
BShiftLimbs[x \in Bigs, n \in Nat] ==
    IF Len(x) = 0 THEN << >> ELSE [i \in 1..n |-> 0] \o x

BMulFrom[x \in Bigs, y \in Bigs, i \in Nat] ==
    IF i > Len(y) THEN << >>
    ELSE BAdd[BShiftLimbs[BMulSmall[x, y[i]], i - 1], BMulFrom[x, y, i + 1]]

BMul[x \in Bigs, y \in Bigs] == BMulFrom[x, y, 1]

\* x * 2^n
BShl[x \in Bigs, n \in Nat] ==
    BShiftLimbs[BMulSmall[x, 2 ^ (n % LimbBits)], n \div LimbBits]

\* floor(x / k) for a digit k > 0, from digit i down
BDivSmallFrom[x \in Bigs, k \in Nat, i \in Nat, rem \in Nat] ==
    IF i = 0 THEN << >>
    ELSE LET cur == rem * LimbBase + x[i]
         IN  BDivSmallFrom[x, k, i - 1, cur % k] \o <<cur \div k>>

\* floor(x / 2^n)
BShr[x \in Bigs, n \in Nat] ==
    IF n \div LimbBits >= Len(x) THEN << >>
    ELSE BNorm[BDivSmallFrom[SubSeq(x, n \div LimbBits + 1, Len(x)),
                             2 ^ (n % LimbBits), Len(x) - n \div LimbBits, 0]]

BitLen[n \in Nat] == IF n = 0 THEN 0 ELSE 1 + BitLen[n \div 2]

\* number of bits of x
BBitLen[x \in Bigs] ==
    IF Len(x) = 0 THEN 0 ELSE LimbBits * (Len(x) - 1) + BitLen[x[Len(x)]]

BOdd[x \in Bigs] == Len(x) > 0 /\ x[1] % 2 = 1

BOne == <<1>>

\* A float64: NaN, an infinity, zero, or sign * mant * 2^exp with a
\* significand mant of exactly MantBits bits.  Subnormal numbers, overflow
\* and the sign of zero are left out: scores of audio samples are far from
\* both ends of the exponent range, and -0.0 compares equal to 0.0.
Signs == {0 - 1, 1}
Floats == [kind : {"nan", "inf", "zero", "num"}, sign : Signs, mant : Bigs, exp : Int]

FNaN == [kind |-> "nan", sign |-> 1, mant |-> << >>, exp |-> 0]
FZero == [kind |-> "zero", sign |-> 1, mant |-> << >>, exp |-> 0]
FInf(s) == [kind |-> "inf", sign |-> s, mant |-> << >>, exp |-> 0]
FNum(s, m, e) == [kind |-> "num", sign |-> s, mant |-> m, exp |-> e]

\* sign * (q + f) * 2^e for a q of MantBits bits and a fraction f, rounded to
\* the nearest float64: up is whether f is above 1/2, or is 1/2 and q is odd
FRoundUp[sign \in Signs, q \in Bigs, e \in Int, up \in BOOLEAN] ==
    IF ~up THEN FNum(sign, q, e)
    ELSE IF BBitLen[BAdd[q, BOne]] > MantBits
    THEN FNum(sign, BShr[BAdd[q, BOne], 1], e + 1)
    ELSE FNum(sign, BAdd[q, BOne], e)

\* the same for q = floor(m / 2^drop), drop > 0; f is the dropped part of m,
\* and a little more when sticky
FRoundDrop[sign \in Signs, m \in Bigs, q \in Bigs, drop \in Nat, e \in Int, sticky \in BOOLEAN] ==
    LET c == BCmp[BSub[m, BShl[q, drop]], BShl[BOne, drop - 1]]
    IN  FRoundUp[sign, q, e + drop, c > 0 \/ (c = 0 /\ (sticky \/ BOdd[q]))]

\* sign * (m + f) * 2^e rounded to the nearest float64, ties to even; f is a
\* fraction in [0, 1), nonzero when sticky
FRound[sign \in Signs, m \in Bigs, e \in Int, sticky \in BOOLEAN] ==
    IF Len(m) = 0 THEN FZero
    ELSE IF BBitLen[m] <= MantBits
    THEN FNum(sign, BShl[m, MantBits - BBitLen[m]], e - (MantBits - BBitLen[m]))
    ELSE FRoundDrop[sign, m, BShr[m, BBitLen[m] - MantBits],
                    BBitLen[m] - MantBits, e, sticky]

\* float(n)
FFromInt[n \in Int] ==
    IF n < 0 THEN FRound[0 - 1, BFromInt[0 - n], 0, FALSE]
    ELSE FRound[1, BFromInt[n], 0, FALSE]

FOne == FFromInt[1]

FNeg[x \in Floats] ==
    IF x.kind \in {"num", "inf"} THEN [x EXCEPT !.sign = 0 - x.sign] ELSE x

\* sx * mx * 2^e + sy * my * 2^e, rounded
FAddAligned[sx \in Signs, mx \in Bigs, sy \in Signs, my \in Bigs, e \in Int] ==
    IF sx = sy THEN FRound[sx, BAdd[mx, my], e, FALSE]
    ELSE IF BCmp[mx, my] = 0 THEN FZero
    ELSE IF BCmp[mx, my] > 0 THEN FRound[sx, BSub[mx, my], e, FALSE]
    ELSE FRound[sy, BSub[my, mx], e, FALSE]

FAdd[x \in Floats, y \in Floats] ==
    IF x.kind = "nan" \/ y.kind = "nan" THEN FNaN
    ELSE IF x.kind = "inf"
    THEN IF y.kind = "inf" /\ y.sign # x.sign THEN FNaN ELSE x
    ELSE IF y.kind = "inf" THEN y
    ELSE IF x.kind = "zero" THEN y
    ELSE IF y.kind = "zero" THEN x
    ELSE FAddAligned[x.sign, BShl[x.mant, x.exp - Min(x.exp, y.exp)],
                     y.sign, BShl[y.mant, y.exp - Min(x.exp, y.exp)],
                     Min(x.exp, y.exp)]

FSub[x \in Floats, y \in Floats] == FAdd[x, FNeg[y]]

FMul[x \in Floats, y \in Floats] ==
    IF x.kind = "nan" \/ y.kind = "nan" THEN FNaN
    ELSE IF x.kind = "zero" \/ y.kind = "zero"
    THEN IF x.kind = "inf" \/ y.kind = "inf" THEN FNaN ELSE FZero
    ELSE IF x.kind = "inf" \/ y.kind = "inf" THEN FInf(x.sign * y.sign)
    ELSE FRound[x.sign * y.sign, BMul[x.mant, y.mant], x.exp + y.exp, FALSE]

\* long division of r by d, for r < 2 * d: from qr = <<0, r>>, k steps give
\* <<floor(r * 2^(k-1) / d), twice the remainder>>
DivSteps[qr \in Bigs \X Bigs, d \in Bigs, k \in Nat] ==
    IF k = 0 THEN qr
    ELSE IF BCmp[qr[2], d] >= 0
    THEN DivSteps[<<BAdd[BMulSmall[qr[1], 2], BOne],
                    BMulSmall[BSub[qr[2], d], 2]>>, d, k - 1]
    ELSE DivSteps[<<BMulSmall[qr[1], 2], BMulSmall[qr[2], 2]>>, d, k - 1]

\* sign * (quotient and remainder qr) * 2^e, rounded
FRoundQuotient[sign \in Signs, qr \in Bigs \X Bigs, e \in Int] ==
    FRound[sign, qr[1], e, Len(qr[2]) > 0]

FDiv[x \in Floats, y \in Floats] ==
    IF x.kind = "nan" \/ y.kind = "nan" THEN FNaN
    ELSE IF x.kind = "inf"
    THEN IF y.kind = "inf" THEN FNaN
         ELSE FInf(x.sign * y.sign)
    ELSE IF y.kind = "inf" THEN FZero
    ELSE IF y.kind = "zero"
    THEN IF x.kind = "zero" THEN FNaN ELSE FInf(x.sign)
    ELSE IF x.kind = "zero" THEN FZero
    ELSE FRoundQuotient[x.sign * y.sign,
                        DivSteps[<<<< >>, x.mant>>, y.mant, MantBits + 3],
                        x.exp - y.exp - (MantBits + 2)]

\* floor(sqrt(x)): the bits of the root from bit down, r the part found
SqrtSteps[x \in Bigs, r \in Bigs, bit \in Int] ==
    IF bit < 0 THEN r
    ELSE IF BCmp[BMul[BAdd[r, BShl[BOne, bit]], BAdd[r, BShl[BOne, bit]]], x] <= 0
    THEN SqrtSteps[x, BAdd[r, BShl[BOne, bit]], bit - 1]
    ELSE SqrtSteps[x, r, bit - 1]

\* (root = floor(sqrt(x))) * 2^e, rounded
FRoundRoot[x \in Bigs, root \in Bigs, e \in Int] ==
    FRound[1, root, e, BCmp[BMul[root, root], x] # 0]

\* sqrt(m * 2^e) for an even e
FSqrtEven[m \in Bigs, e \in Int] ==
    FRoundRoot[m, SqrtSteps[m, << >>, (BBitLen[m] + 1) \div 2], e \div 2]

FSqrt[x \in Floats] ==
    IF x.kind = "nan" THEN FNaN
    ELSE IF x.kind = "zero" THEN FZero
    ELSE IF x.sign < 0 THEN FNaN
    ELSE IF x.kind = "inf" THEN x
    ELSE IF x.exp % 2 = 0
    THEN FSqrtEven[BShl[x.mant, MantBits + 5], x.exp - (MantBits + 5)]
    ELSE FSqrtEven[BShl[x.mant, MantBits + 4], x.exp - (MantBits + 4)]

FSign[x \in Floats] == IF x.kind = "zero" THEN 0 ELSE x.sign

\* |x| < |y| for two floats that are neither NaN nor zero
FMagLess[x \in Floats, y \in Floats] ==
    IF y.kind = "inf" THEN x.kind # "inf"
    ELSE IF x.kind = "inf" THEN FALSE
    ELSE x.exp < y.exp \/ (x.exp = y.exp /\ BCmp[x.mant, y.mant] < 0)

\* x < y on floats: false when either is NaN
FLess[x \in Floats, y \in Floats] ==
    /\ x.kind # "nan"
    /\ y.kind # "nan"
    /\ IF FSign[x] # FSign[y] THEN FSign[x] < FSign[y]
       ELSE IF FSign[x] = 0 THEN FALSE
       ELSE IF FSign[x] > 0 THEN FMagLess[x, y]
       ELSE FMagLess[y, x]

\* x <= y on floats: false when either is NaN
FLeq[x \in Floats, y \in Floats] ==
    x.kind # "nan" /\ y.kind # "nan" /\ ~FLess[y, x]

\* np.clip(x, -1, 1)
FClip[x \in Floats] ==
    IF FLess[FOne, x] THEN FOne
    ELSE IF FLess[x, FNeg[FOne]] THEN FNeg[FOne]
    ELSE x

\* ------------------------------------------------------------- the score
\* the first n samples of a row as float64 values
FloatRow[row \in Seq(Int), n \in Nat] ==
    IF n = 0 THEN << >> ELSE FloatRow[row, n - 1] \o <<FFromInt[row[n]]>>

\* numpy's pairwise summation (add.reduce along a contiguous row): rows of
\* fewer than PairwiseUnroll values are added in order; up to PairwiseBlock
\* values go to PairwiseUnroll running sums, which are then added in pairs;
\* longer rows are split in two
PairwiseUnroll == 8
PairwiseBlock == 128

\* res + x[i] + x[i + step] + ... up to x[hi], added in this order
AddFrom[x \in Seq(Floats), res \in Floats, i \in Nat, step \in Nat, hi \in Nat] ==
    IF i > hi THEN res ELSE AddFrom[x, FAdd[res, x[i]], i + step, step, hi]

\* the running sums r[1..PairwiseUnroll] of the unrolled loop over
\* x[lo + 1 .. lo + full]: r[j] = x[lo + j] + x[lo + j + 8] + ...
LaneSums[x \in Seq(Floats), lo \in Nat, full \in Nat] ==
    [j \in 1..PairwiseUnroll |->
        AddFrom[x, x[lo + j], lo + j + PairwiseUnroll, PairwiseUnroll, lo + full]]

\* the running sums added in pairs:
\* ((r[1] + r[2]) + (r[3] + r[4])) + ((r[5] + r[6]) + (r[7] + r[8]))
PairSum[r \in Seq(Floats), lo \in Nat, n \in Nat] ==
    IF n = 1 THEN r[lo + 1]
    ELSE FAdd[PairSum[r, lo, n \div 2], PairSum[r, lo + (n \div 2), n \div 2]]

\* the sum of x[lo + 1 .. lo + n]
PairwiseSum[x \in Seq(Floats), lo \in Nat, n \in Nat] ==
    IF n < PairwiseUnroll THEN AddFrom[x, FZero, lo + 1, 1, lo + n]
    ELSE IF n <= PairwiseBlock
    THEN AddFrom[x, PairSum[LaneSums[x, lo, n - (n % PairwiseUnroll)],
                            0, PairwiseUnroll],
                 lo + n - (n % PairwiseUnroll) + 1, 1, lo + n]
    ELSE FAdd[PairwiseSum[x, lo, (n \div 2) - ((n \div 2) % PairwiseUnroll)],
              PairwiseSum[x, lo + (n \div 2) - ((n \div 2) % PairwiseUnroll),
                          n - ((n \div 2) - ((n \div 2) % PairwiseUnroll))]]

\* np.add.reduce of the first n values of a row
SumTo[x \in Seq(Floats), n \in Nat] == PairwiseSum[x, 0, n]

\* X -= avg
Centered[x \in Seq(Floats), avg \in Floats, n \in Nat] ==
    IF n = 0 THEN << >> ELSE Centered[x, avg, n - 1] \o <<FSub[x[n], avg]>>

\* x[1] * y[1] + ... + x[n] * y[n], each product rounded, added in this order
DotTo[x \in Seq(Floats), y \in Seq(Floats), n \in Nat] ==
    IF n = 0 THEN FZero ELSE FAdd[DotTo[x, y, n - 1], FMul[x[n], y[n]]]

\* a row of np.cov's X after X -= avg[:, None]: the row minus its mean
Deviations[x \in Seq(Floats)] ==
    Centered[x, FDiv[SumTo[x, Len(x)], FFromInt[Len(x)]], Len(x)]

\* an entry of np.cov's c: dot(X, X_T) scaled by norm = 1 / fact
Cov[dx \in Seq(Floats), dy \in Seq(Floats), norm \in Floats] ==
    FMul[DotTo[dx, dy, Len(dx)], norm]

\* np.corrcoef's [1, 0] entry: c[1, 0] divided by stddev[1], then by
\* stddev[0], and clipped to [-1, 1]
Normalized[c10 \in Floats, c11 \in Floats, c00 \in Floats] ==
    FClip[FDiv[FDiv[c10, FSqrt[c11]], FSqrt[c00]]]

\* the same from the two rows minus their means
CorrOfDeviations[d0 \in Seq(Floats), d1 \in Seq(Floats), norm \in Floats] ==
    Normalized[Cov[d1, d0, norm], Cov[d1, d1, norm], Cov[d0, d0, norm]]

\* np.corrcoef([u, v])[1, 0] for two rows of equal length, in float64 as
\* np.cov and np.corrcoef compute it: the rows minus their means, the
\* products summed and scaled by 1 / (n - 1) (1 / 0.0 = inf for n <= 1),
\* the covariance divided by the standard deviation of row 1, then by that
\* of row 0, and the result clipped to [-1, 1].  NaN for an empty, a
\* one-point or a constant row.
CorrCoef(u, v) ==
    CorrOfDeviations[Deviations[FloatRow[u, Len(u)]],
                     Deviations[FloatRow[v, Len(v)]],
                     FDiv[FOne, FFromInt[Max(Len(u) - 1, 0)]]]

\* longest row a signal of MaxLen samples decimates to
MaxRowLen == (MaxLen + Stride - 1) \div Stride

\* the pairs of rows the signals of the model decimate to
RowPairs ==
    UNION {SignalsOfLen(k) \X SignalsOfLen(k) : k \in 0..MaxRowLen}

\* CorrCoef on RowPairs, every value computed once (@@ builds the function
\* with its values)
CorrCoefTable == [p \in RowPairs |-> CorrCoef(p[1], p[2])] @@ << >>

\* CorrCoef(u, v), looked up when the table holds it
Score(u, v) ==
    IF <<u, v>> \in RowPairs THEN CorrCoefTable[<<u, v>>] ELSE CorrCoef(u, v)

IsNaN(s) == s.kind = "nan"

\* s <= t on floats: false when either is NaN
ScoreLeq(s, t) == FLeq[s, t]

ScoreEq(s, t) == ScoreLeq(s, t) /\ ScoreLeq(t, s)
ScoreLess(s, t) == ScoreLeq(s, t) /\ ~ScoreLeq(t, s)

fast_autocorr(original, delayed, t) ==
    IF t = 0
    THEN Score(EveryStride(original), EveryStride(delayed))
    ELSE IF t < 0
    THEN Score(EveryStride(PySlice(original, 0 - t, Len(original))),
               EveryStride(PySlice(delayed, 0, Max(Len(delayed) + t, 0))))
    ELSE Score(EveryStride(PySlice(original, 0, Max(Len(original) - t, 0))),
               EveryStride(PySlice(delayed, t, Len(delayed))))

\* np.argmax of a non-empty list of floats, 0-based: the first NaN if there
\* is one, else the first maximum
RECURSIVE ArgMaxFrom(_, _, _)
ArgMaxFrom(coefs, i, best) ==
    IF i > Len(coefs) \/ IsNaN(coefs[best]) THEN best - 1
    ELSE IF ~ScoreLeq(coefs[i], coefs[best])
    THEN ArgMaxFrom(coefs, i + 1, i)
    ELSE ArgMaxFrom(coefs, i + 1, best)

\* variant of ArgMax: a later score replaces the best one when it is equal to
\* it (>= for >), so the last maximum wins
ArgMax_LastMax(coefs) ==
    LET idx  == 1..Len(coefs)
        nans == {i \in idx : IsNaN(coefs[i])}
    IN  IF nans # {}
        THEN (CHOOSE i \in nans : \A j \in nans : i <= j) - 1
        ELSE (CHOOSE i \in idx :
                 /\ \A j \in idx : ScoreLeq(coefs[j], coefs[i])
                 /\ \A j \in idx : j > i => ~ScoreEq(coefs[j], coefs[i])) - 1

ArgMax(coefs) == ArgMaxFrom(coefs, 2, 1)

\* the window of lines 26-36
WindowSlice(signal, reference_len, lookahead_samples) ==
    IF lookahead_samples # None /\ reference_len > lookahead_samples[1]
    THEN LET middle == reference_len \div 2
         IN  PySlice(signal, middle, middle + lookahead_samples[1])
    ELSE signal

\* the list built by the loop of lines 38-43, from lag on
RECURSIVE CoefsFrom(_, _, _, _)
CoefsFrom(original_slice, delayed_slice, lag, max_offset_samples) ==
    IF lag >= max_offset_samples THEN << >>
    ELSE <<fast_autocorr(original_slice, delayed_slice, lag)>>
         \o CoefsFrom(original_slice, delayed_slice, lag + 1, max_offset_samples)

Coefs(original, delayed, min_offset, max_offset_samples, lookahead_samples) ==
    CoefsFrom(WindowSlice(original, Len(original), lookahead_samples),
              WindowSlice(delayed, Len(original), lookahead_samples),
              min_offset, max_offset_samples)

\* variant of the search: min_offset_samples is subtracted from the index
find_best_alignment_offset_with_corrcoef_SignSlip(original, delayed, min_offset, max_offset_samples, lookahead_samples) ==
    ArgMax(Coefs(original, delayed, min_offset, max_offset_samples,
                 lookahead_samples)) - min_offset

\* variant of the search: the index of the best score is taken as 1-based
find_best_alignment_offset_with_corrcoef_OneBased(original, delayed, min_offset, max_offset_samples, lookahead_samples) ==
    ArgMax(Coefs(original, delayed, min_offset, max_offset_samples,
                 lookahead_samples)) + 1 + min_offset

find_best_alignment_offset_with_corrcoef(original, delayed, min_offset, max_offset_samples, lookahead_samples) ==
    ArgMax(Coefs(original, delayed, min_offset, max_offset_samples,
                 lookahead_samples)) + min_offset

\* ------------------------------------------------------- the entry point
\* lag range of the symmetric search of line 93
Lags(max_offset_samples) == (0 - max_offset_samples)..(max_offset_samples - 1)

\* _fast_align_audio.lib.fast_find_alignment: the native routine.  Its
\* contract gives an offset of the symmetric search range and leaves the
\* choice among equally good offsets open: the set of offsets it may return.
fast_find_alignment(delayed, reference, max_offset_samples, lookahead_samples) ==
    Lags(max_offset_samples)

\* len(s[start:stop:4])
StridedLen(n, start, stop) ==
    (Max(Min(stop, n) - Min(start, n), 0) + Stride - 1) \div Stride

\* np.corrcoef raises ValueError when its two rows differ in length
RowsDiffer(original, delayed, t) ==
    IF t < 0
    THEN StridedLen(Len(original), 0 - t, Len(original))
         # StridedLen(Len(delayed), 0, Max(Len(delayed) + t, 0))
    ELSE StridedLen(Len(original), 0, Max(Len(original) - t, 0))
         # StridedLen(Len(delayed), t, Len(delayed))

\* the outcome of a call: a returned value, or an exception
Return(k) == <<"return", k>>
Raise == <<"raise", 0>>

\* the set of outcomes a call of find_best_alignment_offset may have
find_best_alignment_offset(reference_signal, delayed_signal, max_offset_samples, lookahead_samples, meth) ==
    IF meth = "mse"
    THEN {Return(k) : k \in fast_find_alignment(
             delayed_signal, reference_signal, max_offset_samples,
             IF lookahead_samples = None
             THEN Some(Max(Len(reference_signal), Len(delayed_signal)))
             ELSE lookahead_samples)}
    ELSE IF meth = "corr"
    THEN IF \E t \in Lags(max_offset_samples) :
                RowsDiffer(reference_signal, delayed_signal, t)
         THEN {Raise}
         ELSE {Return(find_best_alignment_offset_with_corrcoef(
                   reference_signal, delayed_signal,
                   0 - max_offset_samples, max_offset_samples, None))}
    ELSE {Raise}

\* ------------------------------------------------------ align and helpers
\* variant of _align: crop mode crops the second signal
_align_CropsOther(u, v, k, mode) ==
    IF mode = "crop" THEN <<u, PySlice(v, k, Len(v))>>
    ELSE IF mode = "pad" THEN <<u, Zeros(k) \o v>>
    ELSE <<u, v>>

\* variant of _align: pad mode pads at the end
_align_PadsBack(u, v, k, mode) ==
    IF mode = "crop" THEN <<PySlice(u, k, Len(u)), v>>
    ELSE IF mode = "pad" THEN <<u, v \o Zeros(k)>>
    ELSE <<u, v>>

_align(u, v, k, mode) ==
    IF mode = "crop" THEN <<PySlice(u, k, Len(u)), v>>
    ELSE IF mode = "pad" THEN <<u, Zeros(k) \o v>>
    ELSE <<u, v>>

FixRaises(fix_mode) == fix_mode \notin {"None", "shortest", "longest"}

\* variant of _fix: "shortest" keeps the trailing samples
_fix_KeepsTail(u, v, fix_mode) ==
    IF fix_mode = "None" THEN <<u, v>>
    ELSE IF fix_mode = "shortest"
    THEN LET min_len == Min(Len(u), Len(v))
         IN  <<PySlice(u, Len(u) - min_len, Len(u)),
               PySlice(v, Len(v) - min_len, Len(v))>>
    ELSE LET max_len == Max(Len(u), Len(v))
         IN  <<u \o Zeros(max_len - Len(u)), v \o Zeros(max_len - Len(v))>>

\* variant of _fix: "longest" pads at the front
_fix_PadsFront(u, v, fix_mode) ==
    IF fix_mode = "None" THEN <<u, v>>
    ELSE IF fix_mode = "shortest"
    THEN LET min_len == Min(Len(u), Len(v))
         IN  <<PySlice(u, 0, min_len), PySlice(v, 0, min_len)>>
    ELSE LET max_len == Max(Len(u), Len(v))
         IN  <<Zeros(max_len - Len(u)) \o u, Zeros(max_len - Len(v)) \o v>>

\* the pair _fix returns when it does not raise
_fix(u, v, fix_mode) ==
    IF fix_mode = "None" THEN <<u, v>>
    ELSE IF fix_mode = "shortest"
    THEN LET min_len == Min(Len(u), Len(v))
         IN  <<PySlice(u, 0, min_len), PySlice(v, 0, min_len)>>
    ELSE LET max_len == Max(Len(u), Len(v))
         IN  <<u \o Zeros(max_len - Len(u)), v \o Zeros(max_len - Len(v))>>

\* ------------------------------------------------------------ the states
PCs == {"start", "find_done", "find_error",
        "align_offset", "align_aligned", "align_done", "align_error"}

StartOf(sigA, sigB) ==
    /\ a = sigA
    /\ b = sigB
    /\ max_offset \in 1..MaxOffset
    /\ lookahead = None
    /\ method = "mse"
    /\ align_mode = "crop"
    /\ fix_length = "None"
    /\ pc = "start"
    /\ offset = 0
    /\ alignedA = << >>
    /\ alignedB = << >>
    /\ outA = << >>
    /\ outB = << >>

\* two signals of any lengths
Init ==
    \E sigA \in SignalsUpTo(MaxAlignLen), sigB \in SignalsUpTo(MaxAlignLen) :
        StartOf(sigA, sigB)

\* two signals of equal length, long enough for scores that are not NaN
InitCorr ==
    \E n \in 0..MaxLen :
        \E sigA \in SignalsOfLen(n), sigB \in SignalsOfLen(n) :
            StartOf(sigA, sigB)

\* a call find_best_alignment_offset(a, b, max_offset, la, m)
FindBestAlignmentOffset(m, la) ==
    /\ pc = "start"
    /\ method' = m
    /\ lookahead' = la
    /\ \E r \in find_best_alignment_offset(a, b, max_offset, la, m) :
           /\ pc' = IF r = Raise THEN "find_error" ELSE "find_done"
           /\ offset' = IF r = Raise THEN offset ELSE r[2]
    /\ UNCHANGED <<inputs, align_mode, fix_length, alignedA, alignedB,
                   outA, outB>>

\* align(a, b, max_offset, la, align_mode=mode, fix_length=fix), line 114:
\* the method is the default "mse", and an exception of the search ends the
\* call
AlignFindOffset(la, mode, fix) ==
    /\ pc = "start"
    /\ lookahead' = la
    /\ align_mode' = mode
    /\ fix_length' = fix
    /\ \E r \in find_best_alignment_offset(a, b, max_offset, la, "mse") :
           /\ pc' = IF r = Raise THEN "align_error" ELSE "align_offset"
           /\ offset' = IF r = Raise THEN offset ELSE r[2]
    /\ UNCHANGED <<inputs, method, alignedA, alignedB, outA, outB>>

\* lines 115-120
AlignApply ==
    /\ pc = "align_offset"
    /\ IF offset > 0
       THEN LET r == _align(a, b, offset, align_mode)
            IN  alignedA' = r[1] /\ alignedB' = r[2]
       ELSE LET r == _align(b, a, 0 - offset, align_mode)
            IN  alignedB' = r[1] /\ alignedA' = r[2]
    /\ pc' = "align_aligned"
    /\ UNCHANGED <<inputs, lookahead, method, align_mode, fix_length, offset,
                   outA, outB>>

\* lines 121-122
AlignFix ==
    /\ pc = "align_aligned"
    /\ IF FixRaises(fix_length)
       THEN pc' = "align_error" /\ UNCHANGED <<outA, outB>>
       ELSE LET r == _fix(alignedA, alignedB, fix_length)
            IN  outA' = r[1] /\ outB' = r[2] /\ pc' = "align_done"
    /\ UNCHANGED <<inputs, lookahead, method, align_mode, fix_length, offset,
                   alignedA, alignedB>>

Next ==
    \/ \E m \in Methods, la \in Lookaheads : FindBestAlignmentOffset(m, la)
    \/ \E la \in Lookaheads, mode \in AlignModes, fix \in FixModes :
           AlignFindOffset(la, mode, fix)
    \/ AlignApply
    \/ AlignFix

\* the correlation search, with the default lookahead_samples
NextCorr == FindBestAlignmentOffset("corr", None)

\* the correlation search, with lookahead_samples given
NextWindow ==
    \E la \in Lookaheads \ {None} : FindBestAlignmentOffset("corr", la)

Spec == Init /\ [][Next]_vars

SpecCorr == InitCorr /\ [][NextCorr]_vars

SpecWindow == InitCorr /\ [][NextWindow]_vars

TypeOK ==
    /\ pc \in PCs
    /\ offset \in Int
    /\ max_offset \in 1..MaxOffset
    /\ lookahead \in Lookaheads
    /\ method \in Methods
    /\ align_mode \in AlignModes
    /\ fix_length \in FixModes

\* ------------------------------------------------------------ properties
\* the score the correlation search of find_best_alignment_offset(u, v, ...)
\* computes for a lag (no window is applied on that path)
ScoreAt(u, v, lag) == fast_autocorr(u, v, lag)

\* what the correlation search returns for (u, v) over the symmetric range
CorrOffset(u, v) ==
    find_best_alignment_offset_with_corrcoef(u, v, 0 - max_offset, max_offset, None)

CorrReturned == pc = "find_done" /\ method = "corr"

\* C1: the offset find_best_alignment_offset returns lies in
\* [-max_offset_samples, max_offset_samples).
C1_OffsetInSearchRange ==
    pc = "find_done" => (0 - max_offset <= offset /\ offset < max_offset)

\* C1 witness: the search returned the highest lag of a range of four lags.
C1_Witness ==
    /\ CorrReturned
    /\ max_offset = 2
    /\ offset = max_offset - 1
    /\ \A lag \in Lags(max_offset) : ~IsNaN(ScoreAt(a, b, lag))

AlignReturned(mode, fix) ==
    pc = "align_done" /\ align_mode = mode /\ fix_length = fix

\* C2: crop mode without length fixing returns (a[k:], b) for an offset
\* k > 0 and (a, b[-k:]) for k <= 0, in the order (a', b').
C2_CropDropsLeadingSamples ==
    AlignReturned("crop", "None") =>
        IF offset > 0
        THEN /\ outB = b
             /\ Len(outA) = Max(Len(a) - offset, 0)
             /\ \A i \in 1..Len(outA) : outA[i] = a[i + offset]
        ELSE /\ outA = a
             /\ Len(outB) = Max(Len(b) + offset, 0)
             /\ \A i \in 1..Len(outB) : outB[i] = b[i - offset]

\* C2 witness: a negative offset cropped b and left samples in it.
C2_Witness ==
    /\ AlignReturned("crop", "None")
    /\ offset < 0
    /\ Len(outB) > 0
    /\ Len(outB) < Len(b)
    /\ Len(a) > 0

\* C3: pad mode without length fixing returns (a, zeros(k) ++ b) for an
\* offset k > 0 and (zeros(-k) ++ a, b) for k <= 0.
C3_PadInsertsLeadingZeros ==
    AlignReturned("pad", "None") =>
        IF offset > 0
        THEN /\ outA = a
             /\ Len(outB) = Len(b) + offset
             /\ \A i \in 1..offset : outB[i] = 0
             /\ \A i \in 1..Len(b) : outB[offset + i] = b[i]
        ELSE /\ outB = b
             /\ Len(outA) = Len(a) - offset
             /\ \A i \in 1..(0 - offset) : outA[i] = 0
             /\ \A i \in 1..Len(a) : outA[i - offset] = a[i]

\* C3 witness: a negative offset padded a signal a that holds a nonzero
\* sample.
C3_Witness ==
    /\ AlignReturned("pad", "None")
    /\ offset < 0
    /\ \E i \in 1..Len(a) : a[i] # 0
    /\ Len(b) > 0

\* C4: "shortest" returns the leading min(len(x), len(y)) samples of each
\* signal of the aligned pair (x, y).
C4_ShortestKeepsLeadingSamples ==
    (pc = "align_done" /\ fix_length = "shortest") =>
        LET min_len == Min(Len(alignedA), Len(alignedB))
        IN  /\ Len(outA) = min_len
            /\ Len(outB) = min_len
            /\ \A i \in 1..min_len :
                   outA[i] = alignedA[i] /\ outB[i] = alignedB[i]

\* C4 witness: the aligned signals differ in length and the longer one
\* lost a trailing sample that differs from its first one.
C4_Witness ==
    /\ pc = "align_done"
    /\ fix_length = "shortest"
    /\ Len(alignedB) > 0
    /\ Len(alignedA) > Len(alignedB)
    /\ alignedA[Len(alignedA)] # alignedA[1]

\* C5: "longest" returns both signals at length max(len(x), len(y)): each
\* keeps its samples as a prefix and every sample added after it is zero.
C5_LongestPadsTrailingZeros ==
    (pc = "align_done" /\ fix_length = "longest") =>
        LET max_len == Max(Len(alignedA), Len(alignedB))
        IN  /\ Len(outA) = max_len
            /\ Len(outB) = max_len
            /\ \A i \in 1..Len(alignedA) : outA[i] = alignedA[i]
            /\ \A i \in (Len(alignedA) + 1)..max_len : outA[i] = 0
            /\ \A i \in 1..Len(alignedB) : outB[i] = alignedB[i]
            /\ \A i \in (Len(alignedB) + 1)..max_len : outB[i] = 0

\* C5 witness: the shorter signal holds a nonzero sample and was padded.
C5_Witness ==
    /\ pc = "align_done"
    /\ fix_length = "longest"
    /\ Len(alignedA) < Len(alignedB)
    /\ \E i \in 1..Len(alignedA) : alignedA[i] # 0

\* C6: a call with an unrecognized method, align_mode or fix_length raises
\* and returns nothing.
C6_UnknownConfigurationRaises ==
    /\ pc = "find_done" => method \in {"mse", "corr"}
    /\ pc = "align_done" =>
           /\ align_mode \in {"crop", "pad"}
           /\ fix_length \in {"None", "shortest", "longest"}

\* C7: with lookahead_samples given and a longer reference signal, method
\* "corr" returns the offset of the correlation search on the two windowed
\* slices.
C7_CorrSearchUsesWindow ==
    (CorrReturned /\ lookahead # None /\ Len(a) > lookahead[1]) =>
        offset = find_best_alignment_offset_with_corrcoef(
                     a, b, 0 - max_offset, max_offset, lookahead)

\* C8: for two equal signals the correlation search returns 0.
C8_IdenticalSignalsGiveZero ==
    (CorrReturned /\ a = b) => offset = 0

\* the boundary lag -max_offset_samples has the best score of the search for
\* (u, v), alone or tied: no lag of the range scores strictly higher
BoundaryIsBest(u, v) ==
    \A t \in Lags(max_offset) :
        ~ScoreLess(ScoreAt(u, v, 0 - max_offset), ScoreAt(u, v, t))

NoNaN(u, v) == \A t \in Lags(max_offset) : ~IsNaN(ScoreAt(u, v, t))

\* C9 as stated, on searches whose scores are all numbers: swapping the
\* arguments negates the offset unless the best score is at, or tied with,
\* the boundary lag -max_offset_samples of one of the two searches.
C9_SwapNegatesUnlessBoundaryTie ==
    (CorrReturned /\ NoNaN(a, b) /\ NoNaN(b, a)) =>
        \/ offset = 0 - CorrOffset(b, a)
        \/ BoundaryIsBest(a, b)
        \/ BoundaryIsBest(b, a)

\* 2^-SlackBits: a margin well above what rounding can move a score by.  The
\* score of (u, v) at a lag and the score of (v, u) at the mirrored lag come
\* from the same covariance and the same two standard deviations, divided in
\* the other order, and differ by a few units in the last place at most.
SlackBits == 40
Slack == FNum(1, BShl[BOne, MantBits - 1], 0 - (MantBits - 1) - SlackBits)

\* the score of lag t exceeds the score of every other lag of the search for
\* (u, v) by more than Slack; false when a score is NaN
LeadsClearly(u, v, t) ==
    \A t2 \in Lags(max_offset) \ {t} :
        FLess[FAdd[ScoreAt(u, v, t2), Slack], ScoreAt(u, v, t)]

\* some lag other than the boundary lag -max_offset_samples leads clearly in
\* the search for (u, v)
InteriorLagLeads(u, v) ==
    \E t \in Lags(max_offset) \ {0 - max_offset} : LeadsClearly(u, v, t)

\* C9 amended: swapping the arguments negates the offset when, in each of
\* the two searches, the score of one lag other than the boundary lag
\* -max_offset_samples exceeds every other score of the range by more than
\* 2^-40.
C9_SwapNegatesWhenWinnerClear ==
    (CorrReturned /\ InteriorLagLeads(a, b) /\ InteriorLagLeads(b, a))
        => offset = 0 - CorrOffset(b, a)

\* C9 witness: a nonzero offset whose score leads clearly, negated by the
\* swapped search, whose winner leads clearly as well.
C9_Witness ==
    /\ CorrReturned
    /\ offset > 0
    /\ CorrOffset(b, a) = 0 - offset
    /\ LeadsClearly(a, b, offset)
    /\ LeadsClearly(b, a, 0 - offset)

\* C10: no lag of the range scores strictly higher than the returned lag,
\* and no lower lag of the range has an equal score.
C10_ReturnsLowestBestLag ==
    CorrReturned =>
        /\ offset \in Lags(max_offset)
        /\ \A lag \in Lags(max_offset) :
               /\ ~ScoreLess(ScoreAt(a, b, offset), ScoreAt(a, b, lag))
               /\ lag < offset =>
                      ~ScoreEq(ScoreAt(a, b, lag), ScoreAt(a, b, offset))

\* C10 witness: no score is NaN, a lower lag scores less than the returned
\* lag and a higher lag ties with it.
C10_Witness ==
    /\ CorrReturned
    /\ \A lag \in Lags(max_offset) : ~IsNaN(ScoreAt(a, b, lag))
    /\ \E lag \in Lags(max_offset) :
           lag < offset /\ ScoreLess(ScoreAt(a, b, lag), ScoreAt(a, b, offset))
    /\ \E lag \in Lags(max_offset) :
           lag > offset /\ ScoreEq(ScoreAt(a, b, lag), ScoreAt(a, b, offset))
====
